---- MODULE Spec2Model ----
(***************************************************************************)
(* Two facets of the repository:                                           *)
(*  (a) test/lazy/test_extract_compiled_graph.py: the harness that traces  *)
(*      a module, extracts a compiled graph for the lazy backend and       *)
(*      replays it on fresh samples, with a scoped force-fallback setting; *)
(*  (b) torch/ao/quantization/fx/backend_config/native.py: the table of    *)
(*      backend pattern configurations.                                    *)
(* Tensors are abstracted to small integers; torch.allclose is equality.   *)
(***************************************************************************)
EXTENDS Integers, Sequences, FiniteSets, TLC

VARIABLES
    force_fallback,   \* torch._lazy.config: the process-wide force-fallback setting
    stack,            \* live force_fallback_ctx_mgr frames, innermost last
    exc,              \* exception in flight ("none" when there is none)
    pc,               \* position inside verify_reusing_compiled_graph
    mod,              \* module under test
    pattern,          \* exception_msg_pattern: <<>> is None, else <<"fallback", op>>
    args,             \* example inputs of line 123
    exState,          \* extractor state: NotStarted, Walking, Completed, Failed
    nodeIdx,          \* number of captured nodes visited by the extractor
    lowered,          \* nodes lowered so far
    raisedMsg,        \* message of the error raised by extraction
    optimized_mod,    \* <<>> or <<the lowered graph returned by extraction>>
    i,                \* loop counter of line 146
    failed_index,     \* list of mismatching sample indexes
    rand_args,        \* sample of the current iteration
    expected,         \* <<>> or <<eager result>>
    actual,           \* <<>> or <<compiled result>>
    lastFailed,       \* history: module whose extraction failed most recently
    registry,         \* ordered list of generator families given to the resolver
    configs,          \* <<>> or <<the "configs" list of the returned dict>>
    prev_configs,     \* what configs held before the most recent resolution
    calls             \* number of resolutions performed

harnessVars == <<force_fallback, stack, exc, pc, mod, pattern, args, exState,
                 nodeIdx, lowered, raisedMsg, optimized_mod, i, failed_index,
                 rand_args, expected, actual, lastFailed>>
configVars == <<registry, configs, prev_configs, calls>>
vars == <<force_fallback, stack, exc, pc, mod, pattern, args, exState,
          nodeIdx, lowered, raisedMsg, optimized_mod, i, failed_index,
          rand_args, expected, actual, lastFailed, registry, configs,
          prev_configs, calls>>

----------------------------------------------------------------------------
(* Bounds *)

MaxVal == 1
MaxDepth == 2
MaxGens == 2
MaxCalls == 2

TensorVals == 0..MaxVal

----------------------------------------------------------------------------
(* The test modules *)

Modules == {"ModuleConstScale", "ModuleSub", "ModuleAddcmul",
            "ModuleReturnMulti", "ModuleReturnDupTensor"}

\* len(inspect.signature(mod.forward).parameters)
NumParams(m) ==
    CASE m = "ModuleConstScale" -> 1
      [] m = "ModuleSub" -> 2
      [] m = "ModuleAddcmul" -> 3
      [] m = "ModuleReturnMulti" -> 2
      [] m = "ModuleReturnDupTensor" -> 2

\* the literal operands written in the forward methods
ConstScaleLiteral == 2
AddcmulLiteral == 5

\* eager forward of each module: [single, vals]
ModuleConstScale_forward(x) == [single |-> TRUE, vals |-> <<x[1] * ConstScaleLiteral>>]

ModuleSub_forward(x) == [single |-> TRUE, vals |-> <<x[1] - x[2]>>]

ModuleAddcmul_forward(x) ==
    [single |-> TRUE, vals |-> <<x[1] + AddcmulLiteral * x[2] * x[3]>>]

ModuleReturnMulti_forward(x) == [single |-> FALSE, vals |-> <<x[2] + 1, x[1] - 1>>]

ModuleReturnDupTensor_forward(x) ==
    LET c == x[1] + x[2]
    IN  [single |-> FALSE, vals |-> <<x[1] - x[2], c, x[1] + 1, c>>]

Forward(m, x) ==
    CASE m = "ModuleConstScale" -> ModuleConstScale_forward(x)
      [] m = "ModuleSub" -> ModuleSub_forward(x)
      [] m = "ModuleAddcmul" -> ModuleAddcmul_forward(x)
      [] m = "ModuleReturnMulti" -> ModuleReturnMulti_forward(x)
      [] m = "ModuleReturnDupTensor" -> ModuleReturnDupTensor_forward(x)

\* gen_rand_args: one random tensor per forward parameter
gen_rand_args(m) == [1..NumParams(m) -> TensorVals]

----------------------------------------------------------------------------
(* Captured graphs: what fx.symbolic_trace records for each forward *)

In(k) == [k |-> "in", i |-> k]
Nd(k) == [k |-> "node", i |-> k]
Node(op, a, s) == [op |-> op, args |-> a, scalar |-> s]

\* variant: the literal is captured as a second graph input
ModuleConstScale_graph_literalInput(lit) ==
    [inputs |-> 2,
     nodes |-> <<Node("aten::mul", <<In(1)>>, <<lit>>)>>,
     outputs |-> <<Nd(1)>>, single |-> TRUE]

ModuleConstScale_graph(lit) ==
    [inputs |-> 1,
     nodes |-> <<Node("aten::mul", <<In(1)>>, <<lit>>)>>,
     outputs |-> <<Nd(1)>>, single |-> TRUE]

ModuleSub_graph ==
    [inputs |-> 2,
     nodes |-> <<Node("aten::sub", <<In(1), In(2)>>, <<>>)>>,
     outputs |-> <<Nd(1)>>, single |-> TRUE]

\* variant: the keyword value is lost and the operator default 1 is captured
ModuleAddcmul_graph_dropValue(lit) ==
    [inputs |-> 3,
     nodes |-> <<Node("aten::addcmul", <<In(1), In(2), In(3)>>, <<1>>)>>,
     outputs |-> <<Nd(1)>>, single |-> TRUE]

ModuleAddcmul_graph(lit) ==
    [inputs |-> 3,
     nodes |-> <<Node("aten::addcmul", <<In(1), In(2), In(3)>>, <<lit>>)>>,
     outputs |-> <<Nd(1)>>, single |-> TRUE]

\* variant: the two outputs are declared in the opposite order
ModuleReturnMulti_graph_swapped ==
    [inputs |-> 2,
     nodes |-> <<Node("aten::add", <<In(2)>>, <<1>>),
                 Node("aten::sub", <<In(1)>>, <<1>>)>>,
     outputs |-> <<Nd(2), Nd(1)>>, single |-> FALSE]

ModuleReturnMulti_graph ==
    [inputs |-> 2,
     nodes |-> <<Node("aten::add", <<In(2)>>, <<1>>),
                 Node("aten::sub", <<In(1)>>, <<1>>)>>,
     outputs |-> <<Nd(1), Nd(2)>>, single |-> FALSE]

\* variant: the second occurrence of c is captured as a recomputation
ModuleReturnDupTensor_graph_recompute ==
    [inputs |-> 2,
     nodes |-> <<Node("aten::add", <<In(1), In(2)>>, <<>>),
                 Node("aten::sub", <<In(1), In(2)>>, <<>>),
                 Node("aten::add", <<In(1)>>, <<1>>),
                 Node("aten::add", <<In(1), In(2)>>, <<>>)>>,
     outputs |-> <<Nd(2), Nd(1), Nd(3), Nd(4)>>, single |-> FALSE]

ModuleReturnDupTensor_graph ==
    [inputs |-> 2,
     nodes |-> <<Node("aten::add", <<In(1), In(2)>>, <<>>),
                 Node("aten::sub", <<In(1), In(2)>>, <<>>),
                 Node("aten::add", <<In(1)>>, <<1>>)>>,
     outputs |-> <<Nd(2), Nd(1), Nd(3), Nd(1)>>, single |-> FALSE]

\* the graph of module m when its literal operand (if it has one) is lit
TraceWith(m, lit) ==
    CASE m = "ModuleConstScale" -> ModuleConstScale_graph(lit)
      [] m = "ModuleSub" -> ModuleSub_graph
      [] m = "ModuleAddcmul" -> ModuleAddcmul_graph(lit)
      [] m = "ModuleReturnMulti" -> ModuleReturnMulti_graph
      [] m = "ModuleReturnDupTensor" -> ModuleReturnDupTensor_graph

SourceLiteral(m) == IF m = "ModuleAddcmul" THEN AddcmulLiteral ELSE ConstScaleLiteral

symbolic_trace(m) == TraceWith(m, SourceLiteral(m))

GraphOps(g) == {g.nodes[k].op : k \in 1..Len(g.nodes)}

----------------------------------------------------------------------------
(* Lazy backend, extractor and compiled graph runner *)

\* operators the backend executes natively
NativeOps == {"aten::sub", "aten::add", "aten::mul", "aten::addcmul"}

\* backend capability query, with the force-fallback setting applied on top
is_supported(op, setting) == op \in NativeOps /\ op # setting

\* text of the error raised for an operator that falls back, as words
FallbackMessage(op) == <<"Fail", "fallback", op>>

\* backend handles: a graph parameter, a computed value, or scalar data
ParamHandle(k) == [h |-> "param", i |-> k]
ValueHandle(k) == [h |-> "value", i |-> k]
ScalarHandle(v) == [h |-> "scalar", i |-> v]

ToHandle(ref) == IF ref.k = "in" THEN ParamHandle(ref.i) ELSE ValueHandle(ref.i)

\* lowering of one captured node: input references become handles, a literal
\* scalar becomes scalar data after the tensor operands
LowerNode(n) ==
    [op |-> n.op,
     operands |-> [j \in 1..Len(n.args) |-> ToHandle(n.args[j])]
                    \o [j \in 1..Len(n.scalar) |-> ScalarHandle(n.scalar[j])]]

\* the lowered graph returned once every node has been lowered
LoweredGraph(g, lnodes) ==
    [inputs |-> [k \in 1..g.inputs |-> ParamHandle(k)],
     nodes |-> lnodes,
     outputs |-> [p \in 1..Len(g.outputs) |-> ToHandle(g.outputs[p])],
     single |-> g.single]

\* value held by a handle, given the call's arguments and the values computed so far
HandleVal(h, a, vals) ==
    CASE h.h = "param" -> a[h.i]
      [] h.h = "value" -> vals[h.i]
      [] h.h = "scalar" -> h.i

\* backend kernels
Apply(op, v) ==
    CASE op = "aten::sub" -> v[1] - v[2]
      [] op = "aten::add" -> v[1] + v[2]
      [] op = "aten::mul" -> v[1] * v[2]
      [] op = "aten::addcmul" -> v[1] + v[4] * v[2] * v[3]

RECURSIVE ExecNodes(_, _, _)
ExecNodes(lnodes, a, k) ==
    IF k = 0 THEN <<>>
    ELSE LET prev == ExecNodes(lnodes, a, k - 1)
             n == lnodes[k]
         IN  Append(prev, Apply(n.op, [j \in 1..Len(n.operands) |->
                                          HandleVal(n.operands[j], a, prev)]))

\* one call of the compiled graph runner: bind, execute once, rebuild the outputs;
\* every output slot carries the handle it references and that handle's value
CompiledGraphRunner_call(lg, a) ==
    LET vals == ExecNodes(lg.nodes, a, Len(lg.nodes))
    IN  [single |-> lg.single,
         items |-> [p \in 1..Len(lg.outputs) |->
                      [obj |-> lg.outputs[p], val |-> HandleVal(lg.outputs[p], a, vals)]]]

\* the runner accepts exactly as many arguments as the graph has inputs
ArityOk(lg, a) == Len(a) = Len(lg.inputs)

----------------------------------------------------------------------------
(* Harness helpers *)

ncase == 10

ScopeArgs == {"aten::sub", "aten::add"}

MsgPatterns == {<<>>} \cup {<<"fallback", op>> : op \in ScopeArgs}

\* re.search("fallback.*<op>", message) on the words of the message
re_search(pat, msg) ==
    \E a, b \in 1..Len(msg) : a < b /\ msg[a] = pat[1] /\ msg[b] = pat[2]

\* unwrap of allclose, applied to the eager result
unwrap_expected(r) ==
    IF ~r.single /\ Len(r.vals) = 1 THEN [single |-> TRUE, vals |-> r.vals] ELSE r

\* unwrap of allclose, applied to the compiled result
unwrap_actual(r) ==
    IF ~r.single /\ Len(r.items) = 1 THEN [single |-> TRUE, items |-> r.items] ELSE r

\* allclose: "ok", "mismatch", or "error" for the Unexpected types branch
allclose(e0, a0) ==
    LET e == unwrap_expected(e0)
        a == unwrap_actual(a0)
    IN  IF e.single /\ a.single
        THEN IF e.vals[1] = a.items[1].val THEN "ok" ELSE "mismatch"
        ELSE IF ~e.single /\ ~a.single
        THEN IF /\ Len(e.vals) = Len(a.items)
                /\ \A k \in 1..Len(e.vals) : e.vals[k] = a.items[k].val
             THEN "ok" ELSE "mismatch"
        ELSE "error"

----------------------------------------------------------------------------
(* force_fallback_ctx_mgr *)

\* variant: the setting is read back only after the argument was installed
force_fallback_ctx_mgr_enter_saveAfterSet(fallback_op) ==
    /\ pc = "idle"
    /\ exc = "none"
    /\ Len(stack) < MaxDepth
    /\ LET oldconfig == fallback_op
       IN  stack' = Append(stack, [oldconfig |-> oldconfig,
                                   arg |-> fallback_op,
                                   pre |-> force_fallback])
    /\ force_fallback' = fallback_op
    /\ UNCHANGED <<exc, pc, mod, pattern, args, exState, nodeIdx, lowered,
                   raisedMsg, optimized_mod, i, failed_index, rand_args,
                   expected, actual, lastFailed>>

\* __enter__: save the current setting, install the argument, run the block
force_fallback_ctx_mgr_enter(fallback_op) ==
    /\ pc = "idle"
    /\ exc = "none"
    /\ Len(stack) < MaxDepth
    /\ LET oldconfig == force_fallback
       IN  stack' = Append(stack, [oldconfig |-> oldconfig,
                                   arg |-> fallback_op,
                                   pre |-> force_fallback])
    /\ force_fallback' = fallback_op
    /\ UNCHANGED <<exc, pc, mod, pattern, args, exState, nodeIdx, lowered,
                   raisedMsg, optimized_mod, i, failed_index, rand_args,
                   expected, actual, lastFailed>>

\* variant: the exit leaves the scoped value installed
RestoredSetting_keepArg(frame) == frame.arg

\* what the finally clause writes back
RestoredSetting(frame) == frame.oldconfig

\* __exit__: the finally clause runs whether the block returned or raised;
\* an exception in flight keeps propagating
force_fallback_ctx_mgr_exit ==
    /\ pc = "idle"
    /\ Len(stack) > 0
    /\ force_fallback' = RestoredSetting(stack[Len(stack)])
    /\ stack' = SubSeq(stack, 1, Len(stack) - 1)
    /\ UNCHANGED <<exc, pc, mod, pattern, args, exState, nodeIdx, lowered,
                   raisedMsg, optimized_mod, i, failed_index, rand_args,
                   expected, actual, lastFailed>>

\* an exception that left every scope reaches the test runner
TestReported ==
    /\ pc = "idle"
    /\ exc # "none"
    /\ Len(stack) = 0
    /\ exc' = "none"
    /\ UNCHANGED <<force_fallback, stack, pc, mod, pattern, args, exState,
                   nodeIdx, lowered, raisedMsg, optimized_mod, i, failed_index,
                   rand_args, expected, actual, lastFailed>>

----------------------------------------------------------------------------
(* verify_reusing_compiled_graph *)

\* the locals of the call are dropped when it returns or raises
Leave(e) ==
    /\ pc' = "idle"
    /\ exc' = e
    /\ mod' = "none"
    /\ pattern' = <<>>
    /\ args' = <<>>
    /\ exState' = "NotStarted"
    /\ nodeIdx' = 0
    /\ lowered' = <<>>
    /\ raisedMsg' = <<>>
    /\ optimized_mod' = <<>>
    /\ i' = 0
    /\ failed_index' = <<>>
    /\ rand_args' = <<>>
    /\ expected' = <<>>
    /\ actual' = <<>>

\* lines 123-126: draw the example inputs, run the module eagerly (out, kept
\* in expected)
verify_start(m, p) ==
    /\ pc = "idle"
    /\ exc = "none"
    /\ \E a \in gen_rand_args(m) :
          /\ args' = a
          /\ expected' = <<Forward(m, a)>>
    /\ mod' = m
    /\ pattern' = p
    /\ pc' = "extract"
    /\ UNCHANGED <<force_fallback, stack, exc, exState, nodeIdx, lowered,
                   raisedMsg, optimized_mod, i, failed_index, rand_args,
                   actual, lastFailed>>

\* variant: the force-fallback setting is not consulted
VisitOutcome_ignoreForced(n, setting) == IF n.op \in NativeOps THEN "lower" ELSE "fail"

\* outcome of visiting captured node n under the current setting
VisitOutcome(n, setting) == IF is_supported(n.op, setting) THEN "lower" ELSE "fail"

\* line 129, extract_compiled_graph: visit the next captured node
extract_visit_node ==
    /\ pc = "extract"
    /\ exState \in {"NotStarted", "Walking"}
    /\ nodeIdx < Len(symbolic_trace(mod).nodes)
    /\ LET n == symbolic_trace(mod).nodes[nodeIdx + 1]
       IN  IF VisitOutcome(n, force_fallback) = "lower"
           THEN /\ exState' = "Walking"
                /\ lowered' = Append(lowered, LowerNode(n))
                /\ UNCHANGED <<raisedMsg, lastFailed>>
           ELSE /\ exState' = "Failed"
                /\ lowered' = <<>>
                /\ raisedMsg' = FallbackMessage(n.op)
                /\ lastFailed' = mod
    /\ nodeIdx' = nodeIdx + 1
    /\ UNCHANGED <<force_fallback, stack, exc, pc, mod, pattern, args,
                   optimized_mod, i, failed_index, rand_args, expected, actual>>

\* line 129, extract_compiled_graph: every node was lowered, return the graph
extract_return ==
    /\ pc = "extract"
    /\ exState = "Walking"
    /\ nodeIdx = Len(symbolic_trace(mod).nodes)
    /\ exState' = "Completed"
    /\ optimized_mod' = <<LoweredGraph(symbolic_trace(mod), lowered)>>
    /\ UNCHANGED <<force_fallback, stack, exc, pc, mod, pattern, args, nodeIdx,
                   lowered, raisedMsg, i, failed_index, rand_args, expected,
                   actual, lastFailed>>

\* lines 130-138: the except branch
verify_except ==
    /\ pc = "extract"
    /\ exState = "Failed"
    /\ Leave(IF pattern = <<>> THEN "reraised"
             ELSE IF ~re_search(pattern, raisedMsg) THEN "message_mismatch"
             ELSE "none")
    /\ UNCHANGED <<force_fallback, stack, lastFailed>>

\* lines 140-141: extraction succeeded although an exception was expected
verify_missing_exception ==
    /\ pc = "extract"
    /\ exState = "Completed"
    /\ pattern # <<>>
    /\ Leave("expected_exception")
    /\ UNCHANGED <<force_fallback, stack, lastFailed>>

\* line 142: first compiled call, on the example inputs; line 145
verify_first_call ==
    /\ pc = "extract"
    /\ exState = "Completed"
    /\ pattern = <<>>
    /\ IF ~ArityOk(optimized_mod[1], args)
       THEN /\ Leave("arity_mismatch")
            /\ UNCHANGED <<force_fallback, stack, lastFailed>>
       ELSE /\ actual' = <<CompiledGraphRunner_call(optimized_mod[1], args)>>
            /\ rand_args' = args
            /\ args' = <<>>
            /\ failed_index' = <<>>
            /\ i' = 0
            /\ pc' = "loop"
            /\ UNCHANGED <<force_fallback, stack, exc, mod, pattern, exState,
                           nodeIdx, lowered, raisedMsg, optimized_mod, expected,
                           lastFailed>>

\* lines 146-153: one iteration of the correctness loop
verify_iteration ==
    /\ pc = "loop"
    /\ i < ncase
    /\ \E ra \in gen_rand_args(mod) :
          LET e == Forward(mod, ra)
              a == CompiledGraphRunner_call(optimized_mod[1], ra)
              verdict == allclose(e, a)
          IN  IF ~ArityOk(optimized_mod[1], ra)
              THEN /\ Leave("arity_mismatch")
                   /\ UNCHANGED <<force_fallback, stack, lastFailed>>
              ELSE IF verdict = "error"
              THEN /\ Leave("unexpected_types")
                   /\ UNCHANGED <<force_fallback, stack, lastFailed>>
              ELSE /\ rand_args' = ra
                   /\ expected' = <<e>>
                   /\ actual' = <<a>>
                   /\ failed_index' = IF verdict = "ok" THEN failed_index
                                      ELSE Append(failed_index, i)
                   /\ i' = i + 1
                   /\ UNCHANGED <<force_fallback, stack, exc, pc, mod, pattern,
                                  args, exState, nodeIdx, lowered, raisedMsg,
                                  optimized_mod, lastFailed>>

\* by how much the first output of an untrusted backend may be off
Deviations == {0, 1}

\* the compiled result with its first output off by d
Corrupt(r, d) == [r EXCEPT !.items[1].val = @ + d]

\* lines 146-153 when the backend's result is not trusted to be right: the
\* same iteration, with the compiled result possibly off
verify_iteration_unchecked ==
    /\ pc = "loop"
    /\ i < ncase
    /\ \E ra \in gen_rand_args(mod), d \in Deviations :
          LET e == Forward(mod, ra)
              a == Corrupt(CompiledGraphRunner_call(optimized_mod[1], ra), d)
              verdict == allclose(e, a)
          IN  IF ~ArityOk(optimized_mod[1], ra)
              THEN /\ Leave("arity_mismatch")
                   /\ UNCHANGED <<force_fallback, stack, lastFailed>>
              ELSE IF verdict = "error"
              THEN /\ Leave("unexpected_types")
                   /\ UNCHANGED <<force_fallback, stack, lastFailed>>
              ELSE /\ rand_args' = ra
                   /\ expected' = <<e>>
                   /\ actual' = <<a>>
                   /\ failed_index' = IF verdict = "ok" THEN failed_index
                                      ELSE Append(failed_index, i)
                   /\ i' = i + 1
                   /\ UNCHANGED <<force_fallback, stack, exc, pc, mod, pattern,
                                  args, exState, nodeIdx, lowered, raisedMsg,
                                  optimized_mod, lastFailed>>

\* variant: the count of failed samples is never turned into an error
verify_finish_noRaise ==
    /\ pc = "loop"
    /\ i = ncase
    /\ Leave("none")
    /\ UNCHANGED <<force_fallback, stack, lastFailed>>

\* lines 155-156: after the loop
verify_finish ==
    /\ pc = "loop"
    /\ i = ncase
    /\ Leave(IF Len(failed_index) > 0 THEN "failed_cases" ELSE "none")
    /\ UNCHANGED <<force_fallback, stack, lastFailed>>

----------------------------------------------------------------------------
(* Specification of the harness *)

HarnessInit ==
    /\ force_fallback = ""
    /\ stack = <<>>
    /\ exc = "none"
    /\ pc = "idle"
    /\ mod = "none"
    /\ pattern = <<>>
    /\ args = <<>>
    /\ exState = "NotStarted"
    /\ nodeIdx = 0
    /\ lowered = <<>>
    /\ raisedMsg = <<>>
    /\ optimized_mod = <<>>
    /\ i = 0
    /\ failed_index = <<>>
    /\ rand_args = <<>>
    /\ expected = <<>>
    /\ actual = <<>>
    /\ lastFailed = "none"

Init ==
    /\ HarnessInit
    /\ registry = <<>>
    /\ configs = <<>>
    /\ prev_configs = <<>>
    /\ calls = 0

Next ==
    \/ \E op \in ScopeArgs : force_fallback_ctx_mgr_enter(op) /\ UNCHANGED configVars
    \/ force_fallback_ctx_mgr_exit /\ UNCHANGED configVars
    \/ TestReported /\ UNCHANGED configVars
    \/ \E m \in Modules, p \in MsgPatterns : verify_start(m, p) /\ UNCHANGED configVars
    \/ extract_visit_node /\ UNCHANGED configVars
    \/ extract_return /\ UNCHANGED configVars
    \/ verify_except /\ UNCHANGED configVars
    \/ verify_missing_exception /\ UNCHANGED configVars
    \/ verify_first_call /\ UNCHANGED configVars
    \/ verify_iteration /\ UNCHANGED configVars
    \/ verify_finish /\ UNCHANGED configVars

Spec == Init /\ [][Next]_vars

\* the harness outside any scope, replaying against a backend whose results
\* are not trusted
ReplayNext ==
    \/ TestReported /\ UNCHANGED configVars
    \/ \E m \in Modules, p \in MsgPatterns : verify_start(m, p) /\ UNCHANGED configVars
    \/ extract_visit_node /\ UNCHANGED configVars
    \/ extract_return /\ UNCHANGED configVars
    \/ verify_missing_exception /\ UNCHANGED configVars
    \/ verify_first_call /\ UNCHANGED configVars
    \/ verify_iteration_unchecked /\ UNCHANGED configVars
    \/ verify_finish /\ UNCHANGED configVars

SpecReplay == Init /\ [][ReplayNext]_vars

----------------------------------------------------------------------------
(* native.py: the backend pattern configurations *)

\* a pattern is a sequence of operator identifiers: one for a single operator,
\* two for a chain; method names given as strings carry the prefix "str:"
Single(op) == <<op>>
Chain(a, b) == <<a, b>>

OUTPUT_USE_DIFFERENT_OBSERVER_AS_INPUT == "OUTPUT_USE_DIFFERENT_OBSERVER_AS_INPUT"
OUTPUT_SHARE_OBSERVER_WITH_INPUT == "OUTPUT_SHARE_OBSERVER_WITH_INPUT"

\* "dtype_configs" is either a list of dtype-configuration records or one bare record
DtypeList(names) == [list |-> TRUE, items |-> names]
DtypeBare(name) == [list |-> FALSE, items |-> <<name>>]

weighted_op_int8_dtype_config == "weighted_op_int8_dtype_config"
default_op_quint8_dtype_config == "default_op_quint8_dtype_config"

\* a config dict; a key the dict does not have is "absent" (or the empty sequence)
Cfg(pat) ==
    [pattern |-> pat,
     observation_type |-> "absent",
     num_tensor_args_to_observation_type |-> <<>>,
     dtype_configs |-> DtypeList(<<>>),
     root_module |-> "absent",
     reference_quantized_module_for_root |-> "absent",
     qat_module |-> "absent",
     fuser_method |-> <<>>,
     overwrite_output_fake_quantizer |-> <<>>,
     overwrite_output_observer |-> "absent"]

\* an object built during call number call; site tells the creation sites apart
NewObject(kind, arg, call, site) == <<[kind |-> kind, arg |-> arg, call |-> call, site |-> site]>>

reverse_sequential_wrapper2(fused, call, site) ==
    NewObject("reverse_sequential_wrapper2", fused, call, site)

_get_default_op_backend_config(op, dtype_configs) ==
    [Cfg(Single(op)) EXCEPT
        !.observation_type = OUTPUT_USE_DIFFERENT_OBSERVER_AS_INPUT,
        !.dtype_configs = dtype_configs]

DefaultOps ==
    <<"torch.nn.ConvTranspose1d", "torch.nn.ConvTranspose2d", "torch.nn.ELU",
      "torch.nn.LeakyReLU", "torch.nn.Hardswish", "torch.nn.InstanceNorm1d",
      "torch.nn.InstanceNorm2d", "torch.nn.InstanceNorm3d", "torch.nn.LayerNorm",
      "torch.nn.Dropout", "torch.nn.functional.elu", "torch.nn.functional.hardswish",
      "torch.nn.functional.instance_norm", "torch.nn.functional.leaky_relu",
      "torch.nn.functional.dropout", "torch.nn.functional.layer_norm">>

_DEFAULT_OP_INT8_CONFIGS ==
    [k \in 1..Len(DefaultOps) |->
        _get_default_op_backend_config(DefaultOps[k],
                                       DtypeList(<<default_op_quint8_dtype_config>>))]

\* an entry of the weighted families: observation type and dtype configs are shared
Weighted(pat) ==
    [Cfg(pat) EXCEPT
        !.observation_type = OUTPUT_USE_DIFFERENT_OBSERVER_AS_INPUT,
        !.dtype_configs = DtypeList(<<weighted_op_int8_dtype_config>>)]

_get_linear_configs(call) ==
    << [Weighted(Single("torch.nn.Linear")) EXCEPT
            !.root_module = "torch.nn.Linear",
            !.reference_quantized_module_for_root = "torch.nn.quantized._reference.Linear",
            !.qat_module = "torch.nn.qat.Linear"],
       [Weighted(Single("torch.nn.qat.Linear")) EXCEPT
            !.root_module = "torch.nn.Linear",
            !.reference_quantized_module_for_root = "torch.nn.quantized._reference.Linear"],
       Weighted(Single("torch.nn.functional.linear")),
       [Weighted(Single("torch.nn.intrinsic.LinearReLU")) EXCEPT
            !.root_module = "torch.nn.Linear",
            !.reference_quantized_module_for_root = "torch.nn.quantized._reference.Linear",
            !.qat_module = "torch.nn.intrinsic.qat.LinearReLU"],
       [Weighted(Single("torch.nn.intrinsic.qat.LinearReLU")) EXCEPT
            !.root_module = "torch.nn.Linear",
            !.reference_quantized_module_for_root = "torch.nn.quantized._reference.Linear"],
       [Weighted(Chain("torch.nn.ReLU", "torch.nn.Linear")) EXCEPT
            !.fuser_method = reverse_sequential_wrapper2("torch.nn.intrinsic.LinearReLU", call, 6)],
       [Weighted(Chain("torch.nn.functional.relu", "torch.nn.Linear")) EXCEPT
            !.fuser_method = reverse_sequential_wrapper2("torch.nn.intrinsic.LinearReLU", call, 7)],
       Weighted(Chain("torch.nn.ReLU", "torch.nn.functional.linear")),
       Weighted(Chain("torch.nn.functional.relu", "torch.nn.functional.linear")),
       [Weighted(Single("torch.nn.intrinsic.LinearBn1d")) EXCEPT
            !.root_module = "torch.nn.Linear",
            !.reference_quantized_module_for_root = "torch.nn.quantized._reference.Linear",
            !.qat_module = "torch.nn.intrinsic.qat.LinearBn1d"],
       [Weighted(Single("torch.nn.intrinsic.qat.LinearBn1d")) EXCEPT
            !.root_module = "torch.nn.Linear",
            !.reference_quantized_module_for_root = "torch.nn.quantized._reference.Linear"] >>

_ConvMetadata(d) ==
    [root |-> "torch.nn.Conv" \o d,
     reference |-> "torch.nn.quantized._reference.Conv" \o d,
     qat |-> "torch.nn.qat.Conv" \o d,
     relu |-> "torch.nn.intrinsic.ConvReLU" \o d,
     relu_qat |-> "torch.nn.intrinsic.qat.ConvReLU" \o d,
     bn_qat |-> "torch.nn.intrinsic.qat.ConvBn" \o d,
     bn_relu_qat |-> "torch.nn.intrinsic.qat.ConvBnReLU" \o d,
     func |-> "torch.nn.functional.conv" \o d]

_Conv1dMetadata == _ConvMetadata("1d")
_Conv2dMetadata == _ConvMetadata("2d")
_Conv3dMetadata == _ConvMetadata("3d")

\* the entries appended by one iteration of the loop of _get_conv_configs;
\* n is the number of the iteration
ConvIteration(convs, call, n) ==
    << [Weighted(Single(convs.root)) EXCEPT
            !.root_module = convs.root,
            !.reference_quantized_module_for_root = convs.reference,
            !.qat_module = convs.qat],
       [Weighted(Single(convs.qat)) EXCEPT
            !.root_module = convs.root,
            !.reference_quantized_module_for_root = convs.reference],
       Weighted(Single(convs.func)),
       [Weighted(Single(convs.relu)) EXCEPT
            !.root_module = convs.root,
            !.reference_quantized_module_for_root = convs.reference,
            !.qat_module = convs.relu_qat],
       [Weighted(Single(convs.relu_qat)) EXCEPT
            !.root_module = convs.root,
            !.reference_quantized_module_for_root = convs.reference],
       [Weighted(Chain("torch.nn.ReLU", convs.root)) EXCEPT
            !.fuser_method = reverse_sequential_wrapper2(convs.relu, call, 11 * n + 6)],
       [Weighted(Chain("torch.nn.functional.relu", convs.root)) EXCEPT
            !.fuser_method = reverse_sequential_wrapper2(convs.relu, call, 11 * n + 7)],
       Weighted(Chain("torch.nn.ReLU", convs.func)),
       Weighted(Chain("torch.nn.functional.relu", convs.func)),
       [Weighted(Single(convs.bn_qat)) EXCEPT
            !.root_module = convs.root,
            !.reference_quantized_module_for_root = convs.reference],
       [Weighted(Single(convs.bn_relu_qat)) EXCEPT
            !.root_module = convs.root,
            !.reference_quantized_module_for_root = convs.reference] >>

\* variant: conv_configs outlives the call and keeps the entries of the call before
_get_conv_configs_accumulate(call) ==
    LET once == ConvIteration(_Conv1dMetadata, call, 1)
                  \o ConvIteration(_Conv2dMetadata, call, 2)
                  \o ConvIteration(_Conv3dMetadata, call, 3)
    IN  IF call = 1 THEN once ELSE once \o once

_get_conv_configs(call) ==
    ConvIteration(_Conv1dMetadata, call, 1)
        \o ConvIteration(_Conv2dMetadata, call, 2)
        \o ConvIteration(_Conv3dMetadata, call, 3)

num_tensor_args_to_observation_type_mapping ==
    <<OUTPUT_USE_DIFFERENT_OBSERVER_AS_INPUT,
      OUTPUT_SHARE_OBSERVER_WITH_INPUT,
      OUTPUT_USE_DIFFERENT_OBSERVER_AS_INPUT>>

BinaryEntry(pat) ==
    [Cfg(pat) EXCEPT
        !.num_tensor_args_to_observation_type = num_tensor_args_to_observation_type_mapping,
        !.dtype_configs = DtypeList(<<weighted_op_int8_dtype_config>>)]

\* the entries appended by one iteration of the loop of _get_binary_op_configs
BinaryIteration(op) ==
    << BinaryEntry(Chain("torch.nn.ReLU", op)),
       BinaryEntry(Chain("torch.nn.functional.relu", op)),
       BinaryEntry(Chain("torch.relu", op)),
       BinaryEntry(Single(op)) >>

_get_binary_op_configs ==
    BinaryIteration("operator.add") \o BinaryIteration("torch.add")
        \o BinaryIteration("operator.mul") \o BinaryIteration("torch.mul")

default_affine_fixed_qparams_observer == "default_affine_fixed_qparams_observer"
default_symmetric_fixed_qparams_observer == "default_symmetric_fixed_qparams_observer"

FixedQParamsOps ==
    << <<"torch.nn.Hardsigmoid", default_affine_fixed_qparams_observer>>,
       <<"torch.nn.functional.hardsigmoid", default_affine_fixed_qparams_observer>>,
       <<"str:hardsigmoid", default_affine_fixed_qparams_observer>>,
       <<"str:hardsigmoid_", default_affine_fixed_qparams_observer>>,
       <<"torch.nn.Sigmoid", default_affine_fixed_qparams_observer>>,
       <<"torch.sigmoid", default_affine_fixed_qparams_observer>>,
       <<"str:sigmoid", default_affine_fixed_qparams_observer>>,
       <<"str:sigmoid_", default_affine_fixed_qparams_observer>>,
       <<"torch.nn.Tanh", default_symmetric_fixed_qparams_observer>>,
       <<"torch.tanh", default_symmetric_fixed_qparams_observer>>,
       <<"str:tanh", default_symmetric_fixed_qparams_observer>>,
       <<"str:tanh_", default_symmetric_fixed_qparams_observer>> >>

_get_fixed_qparams_op_configs(call) ==
    [k \in 1..Len(FixedQParamsOps) |->
        [Cfg(Single(FixedQParamsOps[k][1])) EXCEPT
            !.observation_type = OUTPUT_USE_DIFFERENT_OBSERVER_AS_INPUT,
            !.overwrite_output_fake_quantizer =
                NewObject("FixedQParamsFakeQuantize.with_args", FixedQParamsOps[k][2], call, k),
            !.overwrite_output_observer = FixedQParamsOps[k][2],
            !.dtype_configs = DtypeList(<<weighted_op_int8_dtype_config>>)]]

_CAT_CONFIG ==
    [Cfg(Single("torch.cat")) EXCEPT
        !.observation_type = OUTPUT_SHARE_OBSERVER_WITH_INPUT,
        !.dtype_configs = DtypeList(<<default_op_quint8_dtype_config>>)]

BnEntry(op) ==
    [Cfg(Single(op)) EXCEPT
        !.observation_type = OUTPUT_USE_DIFFERENT_OBSERVER_AS_INPUT,
        !.dtype_configs = DtypeBare(default_op_quint8_dtype_config)]

\* variant: the second loop iterates over the batchnorm modules again
_get_bn_configs_repeatBn ==
    << BnEntry("torch.nn.BatchNorm2d"), BnEntry("torch.nn.BatchNorm3d"),
       BnEntry("torch.nn.BatchNorm2d"), BnEntry("torch.nn.BatchNorm3d") >>

_get_bn_configs ==
    << BnEntry("torch.nn.BatchNorm2d"), BnEntry("torch.nn.BatchNorm3d"),
       BnEntry("torch.nn.intrinsic.BNReLU2d"), BnEntry("torch.nn.intrinsic.BNReLU3d") >>

_get_share_qprams_op_backend_config(op) ==
    [Cfg(Single(op)) EXCEPT
        !.observation_type = OUTPUT_SHARE_OBSERVER_WITH_INPUT,
        !.dtype_configs = DtypeList(<<default_op_quint8_dtype_config>>)]

share_qparams_ops ==
    <<"torch.nn.AdaptiveAvgPool1d", "torch.nn.AdaptiveAvgPool2d",
      "torch.nn.AdaptiveAvgPool3d", "torch.nn.AvgPool1d", "torch.nn.AvgPool2d",
      "torch.nn.AvgPool3d", "torch.nn.Hardtanh", "torch.nn.Identity",
      "torch.nn.MaxPool1d", "torch.nn.MaxPool2d", "torch.nn.MaxPool3d",
      "torch.nn.ReLU", "torch.nn.ReLU6", "torch.adaptive_avg_pool1d",
      "torch.nn.functional.adaptive_avg_pool2d",
      "torch.nn.functional.adaptive_avg_pool3d", "torch.nn.functional.hardtanh",
      "torch.nn.functional.hardtanh_", "torch.nn.functional.interpolate",
      "torch.nn.functional.max_pool1d", "torch.nn.functional.max_pool2d",
      "torch.nn.functional.max_pool3d", "torch.nn.functional.relu",
      "torch.nn.functional.relu6", "torch.avg_pool1d", "torch._C._nn.avg_pool2d",
      "torch._C._nn.avg_pool3d", "torch.clamp", "torch.flatten", "torch.mean",
      "torch.repeat_interleave", "torch.transpose", "torch.squeeze", "torch.stack",
      "torch.unsqueeze", "operator.floordiv", "str:contiguous", "str:clamp",
      "str:detach", "str:detach_", "str:mean", "str:permute", "str:repeat",
      "str:repeat_interleave", "str:reshape", "str:resize_", "str:relu",
      "str:relu_", "str:shape", "str:size", "str:squeeze", "str:squeeze_",
      "str:transpose", "str:unsqueeze", "str:unsqueeze_", "str:view">>

_get_share_qparams_op_configs ==
    [k \in 1..Len(share_qparams_ops) |->
        _get_share_qprams_op_backend_config(share_qparams_ops[k])]

Families == {"default", "linear", "conv", "binary", "fixed_qparams", "cat", "bn",
             "share_qparams"}

\* the entries one generator family contributes during call number call
Generator(f, call) ==
    CASE f = "default" -> _DEFAULT_OP_INT8_CONFIGS
      [] f = "linear" -> _get_linear_configs(call)
      [] f = "conv" -> _get_conv_configs(call)
      [] f = "binary" -> _get_binary_op_configs
      [] f = "fixed_qparams" -> _get_fixed_qparams_op_configs(call)
      [] f = "cat" -> <<_CAT_CONFIG>>
      [] f = "bn" -> _get_bn_configs
      [] f = "share_qparams" -> _get_share_qparams_op_configs

\* variant: the share-qparams generator is spliced first
NativeGenerators_shareFirst ==
    <<"share_qparams", "default", "linear", "conv", "binary", "fixed_qparams",
      "cat", "bn">>

\* the families in the order the list display of lines 492-501 names them
NativeGenerators ==
    <<"default", "linear", "conv", "binary", "fixed_qparams", "cat", "bn",
      "share_qparams">>

RECURSIVE SpliceConfigs_dedup(_)
\* variant: an entry whose pattern is already present is dropped
SpliceConfigs_dedup(lists) ==
    IF lists = <<>> THEN <<>>
    ELSE LET front == SpliceConfigs_dedup(SubSeq(lists, 1, Len(lists) - 1))
             last == lists[Len(lists)]
             Keep(e) == \A k \in 1..Len(front) : front[k].pattern # e.pattern
         IN  front \o SelectSeq(last, Keep)

RECURSIVE SpliceConfigs_prepend(_)
\* variant: each later list is spliced in front of the earlier ones
SpliceConfigs_prepend(lists) ==
    IF lists = <<>> THEN <<>>
    ELSE lists[Len(lists)] \o SpliceConfigs_prepend(SubSeq(lists, 1, Len(lists) - 1))

RECURSIVE SpliceConfigs(_)
\* the list display [*l1, *l2, ...]: the lists spliced one after the other
SpliceConfigs(lists) ==
    IF lists = <<>> THEN <<>>
    ELSE SpliceConfigs(SubSeq(lists, 1, Len(lists) - 1)) \o lists[Len(lists)]

\* the dict built from an ordered list of generator families
resolve(gens, call) ==
    [name |-> "native",
     configs |-> SpliceConfigs([k \in 1..Len(gens) |-> Generator(gens[k], call)])]

get_native_backend_config_dict(call) == resolve(NativeGenerators, call)

\* the generator lists explored: the native one and every list of at most
\* MaxGens families
RECURSIVE FamilyLists(_)
FamilyLists(n) ==
    IF n = 0 THEN {<<>>}
    ELSE FamilyLists(n - 1)
           \cup {Append(l, f) : l \in {x \in FamilyLists(n - 1) : Len(x) = n - 1},
                                f \in Families}

Registries == {NativeGenerators} \cup FamilyLists(MaxGens)

\* one resolution of the configuration
Resolve ==
    /\ calls < MaxCalls
    /\ calls' = calls + 1
    /\ prev_configs' = configs
    /\ configs' = <<(IF registry = NativeGenerators
                     THEN get_native_backend_config_dict(calls + 1)
                     ELSE resolve(registry, calls + 1)).configs>>
    /\ UNCHANGED registry

ConfigInit ==
    /\ HarnessInit
    /\ registry \in Registries
    /\ configs = <<>>
    /\ prev_configs = <<>>
    /\ calls = 0

ConfigNext == Resolve /\ UNCHANGED harnessVars

SpecConfig == ConfigInit /\ [][ConfigNext]_vars

----------------------------------------------------------------------------
(* Properties of the harness *)

LowerAll(g) == [k \in 1..Len(g.nodes) |-> LowerNode(g.nodes[k])]

\* index of the first captured node that is not supported, 0 when there is none
FirstUnsupported(g, setting) ==
    IF \E k \in 1..Len(g.nodes) : ~is_supported(g.nodes[k].op, setting)
    THEN CHOOSE k \in 1..Len(g.nodes) :
            /\ ~is_supported(g.nodes[k].op, setting)
            /\ \A j \in 1..(k - 1) : is_supported(g.nodes[j].op, setting)
    ELSE 0

\* C1: on every sample (and on the example inputs) the compiled runner's result
\* equals the module's eager result on the same arguments, so no sample is
\* ever recorded as failed.
C1_CompiledMatchesEager ==
    (pc = "loop" /\ actual # <<>>) =>
        /\ allclose(Forward(mod, rand_args), actual[1]) = "ok"
        /\ actual[1].single = Forward(mod, rand_args).single
        /\ failed_index = <<>>

C1_Witness ==
    /\ pc = "loop"
    /\ i = ncase
    /\ mod = "ModuleAddcmul"
    /\ rand_args = <<1, 1, 1>>
    /\ actual[1].items[1].val = 6

\* C2: inside a scope over X, extracting a module whose graph contains X fails
\* with a message in which "fallback" is followed by X; with every scope
\* exited no extraction fails, so the same module extracts successfully.
C2_ForcedFallback ==
    /\ (pc = "extract" /\ exState = "Failed") =>
          /\ stack # <<>>
          /\ stack[Len(stack)].arg \in GraphOps(symbolic_trace(mod))
          /\ re_search(<<"fallback", stack[Len(stack)].arg>>, raisedMsg)
    /\ (pc = "extract" /\ stack # <<>>
          /\ stack[Len(stack)].arg \in GraphOps(symbolic_trace(mod))) =>
          /\ exState # "Completed"
          /\ ~(exState = "Walking" /\ nodeIdx = Len(symbolic_trace(mod).nodes))
    /\ (pc # "idle" /\ stack = <<>>) => exState # "Failed"

C2_Witness ==
    /\ mod = "ModuleSub"
    /\ lastFailed = "ModuleSub"
    /\ stack = <<>>
    /\ exState = "Completed"
    /\ optimized_mod # <<>>

\* C3: inside a scope the setting is the scope's argument, and every exit,
\* normal or by exception, puts back the value the setting had just before
\* that scope was entered.
C3_ScopeRestores ==
    /\ [](stack # <<>> => force_fallback = stack[Len(stack)].arg)
    /\ [][Len(stack') < Len(stack) =>
            /\ force_fallback' = stack[Len(stack)].pre
            /\ stack' = SubSeq(stack, 1, Len(stack) - 1)]_vars
    /\ [](stack = <<>> => force_fallback = "")

C3_Witness ==
    /\ exc = "reraised"
    /\ Len(stack) = 1
    /\ stack[1].arg = "aten::add"
    /\ force_fallback = "aten::add"
    /\ lastFailed = "ModuleSub"

\* C4: output positions that declare the same computed value hold the same
\* object in every compiled result; for ModuleReturnDupTensor positions 2 and
\* 4 are one object, distinct from the objects at positions 1 and 3.
C4_DuplicateOutputIdentity ==
    actual # <<>> =>
        LET g == symbolic_trace(mod)
            r == actual[1]
        IN  /\ Len(r.items) = Len(g.outputs)
            /\ \A p, q \in 1..Len(g.outputs) :
                  (g.outputs[p] = g.outputs[q]) <=> (r.items[p].obj = r.items[q].obj)
            /\ mod = "ModuleReturnDupTensor" =>
                  /\ Len(r.items) = 4
                  /\ r.items[2].obj = r.items[4].obj
                  /\ r.items[2].val = rand_args[1] + rand_args[2]
                  /\ r.items[1].obj # r.items[2].obj
                  /\ r.items[3].obj # r.items[2].obj

C4_Witness ==
    /\ mod = "ModuleReturnDupTensor"
    /\ pc = "loop"
    /\ i > 1
    /\ rand_args = <<1, 1>>
    /\ actual[1].items[2].val = 2
    /\ actual[1].items[4] = actual[1].items[2]

\* C5: a compiled result has as many positions as the module returns, and
\* position p holds the value of the p-th returned expression, computed from
\* the p-th declared output; ModuleReturnMulti yields (b + 1, a - 1).
C5_OutputOrder ==
    actual # <<>> =>
        LET g == symbolic_trace(mod)
            e == Forward(mod, rand_args)
            r == actual[1]
        IN  /\ Len(r.items) = Len(e.vals)
            /\ \A p \in 1..Len(r.items) :
                  /\ r.items[p].val = e.vals[p]
                  /\ r.items[p].obj = ToHandle(g.outputs[p])
            /\ mod = "ModuleReturnMulti" =>
                  /\ Len(r.items) = 2
                  /\ r.items[1].val = rand_args[2] + 1
                  /\ r.items[2].val = rand_args[1] - 1

C5_Witness ==
    /\ mod = "ModuleReturnMulti"
    /\ pc = "loop"
    /\ i > 1
    /\ rand_args = <<0, 1>>
    /\ actual[1].items[1].val = 2
    /\ actual[1].items[2].val = -1

\* C6: a failed extraction stopped at the first unsupported node, keeps no
\* lowered node and returned no graph; a graph exists only when the extractor
\* completed, after it visited every node and found every one supported.
C6_AllOrNothing ==
    (mod # "none") =>
        LET g == symbolic_trace(mod)
            bad == FirstUnsupported(g, force_fallback)
        IN  /\ exState = "Failed" =>
                  /\ bad > 0 /\ nodeIdx = bad
                  /\ lowered = <<>>
                  /\ optimized_mod = <<>>
                  /\ actual = <<>>
            /\ exState = "Walking" =>
                  /\ optimized_mod = <<>>
                  /\ Len(lowered) = nodeIdx
                  /\ bad = 0 \/ nodeIdx < bad
            /\ exState = "Completed" =>
                  /\ bad = 0
                  /\ nodeIdx = Len(g.nodes)
                  /\ optimized_mod # <<>>
                  /\ optimized_mod[1].nodes = LowerAll(g)
            /\ optimized_mod # <<>> => exState = "Completed"
            /\ exState = "NotStarted" => (nodeIdx = 0 /\ optimized_mod = <<>>)

C6_Witness ==
    /\ mod = "ModuleReturnDupTensor"
    /\ exState = "Failed"
    /\ nodeIdx = 2
    /\ force_fallback = "aten::sub"
    /\ optimized_mod = <<>>

LiteralChoices == {2, 3, 5}

IsScalarOperand(h) == h.h = "scalar"

\* C7: the inputs of a lowered graph are exactly the forward parameters in
\* order; a literal operand appears only as scalar data of its node; with
\* another literal the lowered graph has the same inputs, outputs and tensor
\* operands and differs only in that scalar.
C7_ScalarNotAnInput ==
    optimized_mod # <<>> =>
        LET g == symbolic_trace(mod)
            lg == optimized_mod[1]
        IN  /\ lg.inputs = [k \in 1..NumParams(mod) |-> ParamHandle(k)]
            /\ \A k \in 1..Len(lg.inputs) : ~IsScalarOperand(lg.inputs[k])
            /\ \A k \in 1..Len(g.nodes) :
                  LET ops == lg.nodes[k].operands
                      nt == Len(g.nodes[k].args)
                  IN  /\ Len(ops) = nt + Len(g.nodes[k].scalar)
                      /\ \A j \in 1..nt : ~IsScalarOperand(ops[j])
                      /\ \A j \in 1..Len(g.nodes[k].scalar) :
                            ops[nt + j] = ScalarHandle(g.nodes[k].scalar[j])
            /\ mod = "ModuleAddcmul" =>
                  lg.nodes[1].operands[4] = ScalarHandle(AddcmulLiteral)
            /\ mod = "ModuleConstScale" =>
                  lg.nodes[1].operands[2] = ScalarHandle(ConstScaleLiteral)
            /\ \A lit \in LiteralChoices :
                  LET g2 == TraceWith(mod, lit)
                      lg2 == LoweredGraph(g2, LowerAll(g2))
                  IN  /\ lg2.inputs = lg.inputs
                      /\ lg2.outputs = lg.outputs
                      /\ Len(lg2.nodes) = Len(lg.nodes)
                      /\ \A k \in 1..Len(lg.nodes) :
                            /\ lg2.nodes[k].op = lg.nodes[k].op
                            /\ Len(lg2.nodes[k].operands) = Len(lg.nodes[k].operands)
                            /\ \A j \in 1..Len(lg.nodes[k].operands) :
                                  \/ lg2.nodes[k].operands[j] = lg.nodes[k].operands[j]
                                  \/ /\ IsScalarOperand(lg.nodes[k].operands[j])
                                     /\ IsScalarOperand(lg2.nodes[k].operands[j])
                      /\ (mod \in {"ModuleAddcmul", "ModuleConstScale"}
                            /\ lit # SourceLiteral(mod)) => lg2.nodes # lg.nodes

C7_Witness ==
    /\ mod = "ModuleAddcmul"
    /\ optimized_mod # <<>>
    /\ pc = "loop"
    /\ rand_args = <<0, 1, 1>>
    /\ actual[1].items[1].val = 5

----------------------------------------------------------------------------
(* Properties of the configuration table *)

\* the lists the generators of registry reg produce during call number call
GeneratedLists(reg, call) == [k \in 1..Len(reg) |-> Generator(reg[k], call)]

\* number of entries produced by the generators before the k-th one
RECURSIVE Offset(_, _)
Offset(lists, k) ==
    IF k <= 1 THEN 0 ELSE Offset(lists, k - 1) + Len(lists[k - 1])

\* two different generators of the list register the same single operator
HasDuplicateRegistration(lists) ==
    \E a, b \in 1..Len(lists) :
        /\ a < b
        /\ \E x \in 1..Len(lists[a]), y \in 1..Len(lists[b]) :
              /\ lists[a][x].pattern = lists[b][y].pattern
              /\ Len(lists[a][x].pattern) = 1

\* C8: the table built from the native generator list has no two entries with
\* the same pattern.
C8_NoDuplicatePatterns ==
    (registry = NativeGenerators /\ configs # <<>>) =>
        LET T == configs[1]
        IN  \A p, q \in 1..Len(T) : p # q => T[p].pattern # T[q].pattern

C8_Witness ==
    /\ registry = NativeGenerators
    /\ calls = 1
    /\ Len(configs[1]) = 149
    /\ configs[1][149].pattern = <<"str:view">>
    /\ configs[1][46].pattern = <<"torch.nn.ReLU", "torch.nn.functional.conv2d">>

C10_InsertionOrder ==
    (registry = NativeGenerators /\ configs # <<>>) =>
        LET T == configs[1]
            lists == << _DEFAULT_OP_INT8_CONFIGS, _get_linear_configs(calls),
                        _get_conv_configs(calls), _get_binary_op_configs,
                        _get_fixed_qparams_op_configs(calls), <<_CAT_CONFIG>>,
                        _get_bn_configs, _get_share_qparams_op_configs >>
            share == {_get_share_qparams_op_configs[j] :
                         j \in 1..Len(_get_share_qparams_op_configs)}
        IN  /\ Len(T) = Offset(lists, 9)
            /\ \A k \in 1..8 : \A j \in 1..Len(lists[k]) :
                  T[Offset(lists, k) + j] = lists[k][j]
            /\ \A p, q \in 1..Len(T) :
                  (T[p] \in share /\ T[q] \notin share) => q < p

C10_Witness ==
    /\ registry = NativeGenerators
    /\ calls = 2
    /\ configs[1][1].pattern = <<"torch.nn.ConvTranspose1d">>
    /\ configs[1][17].pattern = <<"torch.nn.Linear">>
    /\ configs[1][93].pattern = <<"torch.nn.intrinsic.BNReLU3d">>
    /\ configs[1][94].pattern = <<"torch.nn.AdaptiveAvgPool1d">>
    /\ configs[1][105].pattern = <<"torch.nn.ReLU">>

\* what an object is, leaving aside which call built it
ObjectContent(o) == [k \in 1..Len(o) |-> [kind |-> o[k].kind, arg |-> o[k].arg]]

\* the content of one entry: every key, with built objects compared by what
\* they were built from
EntryContent(e) ==
    [e EXCEPT !.fuser_method = ObjectContent(@),
              !.overwrite_output_fake_quantizer = ObjectContent(@)]

C12_DtypeConfigsIsList ==
    (registry = NativeGenerators /\ configs # <<>>) =>
        \A k \in 1..Len(configs[1]) : configs[1][k].dtype_configs.list

\* positions of the entries of table T whose pattern is one of pats
PositionsOf(T, pats) == {k \in 1..Len(T) : T[k].pattern \in pats}

\* matching with ties broken by earliest registration: of the entries whose
\* pattern is among the candidates, the one registered first
FirstRegistered(T, pats) ==
    T[CHOOSE k \in PositionsOf(T, pats) : \A j \in PositionsOf(T, pats) : k <= j]

\* C13: in the native table, whenever the first element of a chain pattern
\* also has a single-operator entry, the chain entry is registered before
\* that entry, so the earliest-registered of the two is the chain entry.
C13_ChainBeforeSingle ==
    (registry = NativeGenerators /\ configs # <<>>) =>
        LET T == configs[1]
        IN  \A p, q \in 1..Len(T) :
               (Len(T[p].pattern) = 2 /\ T[q].pattern = <<T[p].pattern[1]>>) =>
                   /\ p < q
                   /\ FirstRegistered(T, {T[p].pattern, T[q].pattern}) = T[p]

C13_Witness ==
    /\ registry = NativeGenerators
    /\ calls = 1
    /\ configs[1][22].pattern = <<"torch.nn.ReLU", "torch.nn.Linear">>
    /\ configs[1][105].pattern = <<"torch.nn.ReLU">>
    /\ configs[1][62].pattern = <<"torch.nn.functional.relu", "operator.add">>
    /\ configs[1][116].pattern = <<"torch.nn.functional.relu">>
    /\ FirstRegistered(configs[1], {configs[1][22].pattern, configs[1][105].pattern})
          = configs[1][22]

\* the sequence holds strictly increasing sample indexes below n
IncreasingBelow(f, n) ==
    /\ \A k \in 1..Len(f) : f[k] >= 0 /\ f[k] < n
    /\ \A k \in 1..(Len(f) - 1) : f[k] < f[k + 1]

\* C14: the compiled graph is extracted once, before any compiled call; every
\* one of the ncase samples runs against that same graph, a mismatching
\* sample is recorded and the next one still runs, and the call leaves the
\* loop only after sample ncase - 1, raising exactly when a sample mismatched.
C14_ReuseAndAggregate ==
    /\ [](pc = "loop" =>
            /\ exState = "Completed"
            /\ nodeIdx = Len(symbolic_trace(mod).nodes)
            /\ optimized_mod = <<LoweredGraph(symbolic_trace(mod),
                                              LowerAll(symbolic_trace(mod)))>>
            /\ i <= ncase
            /\ IncreasingBelow(failed_index, i))
    /\ [](actual # <<>> => (pc = "loop" /\ optimized_mod # <<>>))
    /\ [][(pc = "loop" /\ pc' = "loop") =>
            /\ optimized_mod' = optimized_mod
            /\ <<exState', nodeIdx', lowered', mod'>> = <<exState, nodeIdx, lowered, mod>>
            /\ i' = i + 1
            /\ failed_index' = IF allclose(expected'[1], actual'[1]) = "ok"
                               THEN failed_index ELSE Append(failed_index, i)]_vars
    /\ [][(pc = "loop" /\ pc' # "loop") =>
            /\ i = ncase
            /\ exc' = IF failed_index # <<>> THEN "failed_cases" ELSE "none"]_vars
    /\ [][(exState = "Completed" /\ exState' # "Completed") => pc' = "idle"]_vars

C14_Witness ==
    /\ pc = "loop"
    /\ mod = "ModuleSub"
    /\ i = ncase
    /\ failed_index = <<2, 5>>
    /\ exState = "Completed"
    /\ allclose(expected[1], actual[1]) = "ok"

====
